---- MODULE Spec2Model ----
(***************************************************************************)
(* DailyCuckoo: quote fetch -> parse -> portfolio valuation -> report or   *)
(* push notification (src/DailyCuckoo.py).                                 *)
(*                                                                         *)
(* Representation                                                          *)
(*   - a Python str is a sequence of one-character strings;                *)
(*   - a Python number is a normalised fraction [tag, n, d] (exact         *)
(*     arithmetic: binary rounding, inf and nan are outside the model);    *)
(*   - None and raised exceptions are tagged records;                      *)
(*   - a dict is the sequence of its items [k, v] in insertion order.      *)
(***************************************************************************)
EXTENDS Integers, Sequences, FiniteSets, TLC

(***************************************************************************)
(* Values                                                                  *)
(***************************************************************************)
None == [tag |-> "None"]

Raise(name) == [tag |-> "raise", exc |-> name]

IsRaise(x) == x.tag = "raise"

\* a normal return of a call that may raise
Ok(v) == [tag |-> "ok", v |-> v]

Str(s) == [tag |-> "str", s |-> s]

Abs(x) == IF x < 0 THEN -x ELSE x

RECURSIVE GCD(_, _)
GCD(a, b) == IF b = 0 THEN a ELSE GCD(b, a % b)

\* the number n/d, d # 0, in lowest terms with a positive denominator
Num(n, d) ==
    LET g == GCD(Abs(n), Abs(d))
        s == IF d < 0 THEN -1 ELSE 1
    IN  [tag |-> "num", n |-> (s * n) \div g, d |-> (s * d) \div g]

IntNum(n) == Num(n, 1)

Zero == IntNum(0)

Add(a, b) == Num(a.n * b.d + b.n * a.d, a.d * b.d)

Sub(a, b) == Num(a.n * b.d - b.n * a.d, a.d * b.d)

Mul(a, b) == Num(a.n * b.n, a.d * b.d)

Div(a, b) == Num(a.n * b.d, a.d * b.n)

Lt(a, b) == a.n * b.d < b.n * a.d

\* a None operand valued as zero
PyMulNoneAsZero(a, b) ==
    IF a.tag = "num" /\ b.tag = "num" THEN Mul(a, b) ELSE Zero

\* Python's binary * on an operand that may be None
PyMul(a, b) == IF a.tag = "num" /\ b.tag = "num" THEN Mul(a, b) ELSE Raise("TypeError")

(***************************************************************************)
(* Characters and strings                                                  *)
(***************************************************************************)
Digits == {"0", "1", "2", "3", "4", "5", "6", "7", "8", "9"}

DigitVal(c) ==
    CASE c = "0" -> 0 [] c = "1" -> 1 [] c = "2" -> 2 [] c = "3" -> 3 [] c = "4" -> 4
      [] c = "5" -> 5 [] c = "6" -> 6 [] c = "7" -> 7 [] c = "8" -> 8 [] c = "9" -> 9

UpperChar(c) ==
    CASE c = "a" -> "A" [] c = "b" -> "B" [] c = "i" -> "I" [] c = "x" -> "X"
      [] OTHER -> c

LowerChar(c) ==
    CASE c = "A" -> "a" [] c = "B" -> "b" [] c = "I" -> "i" [] c = "X" -> "x"
      [] OTHER -> c

Upper(s) == [i \in 1..Len(s) |-> UpperChar(s[i])]

Lower(s) == [i \in 1..Len(s) |-> LowerChar(s[i])]

RECURSIVE Pow10(_)
Pow10(k) == IF k = 0 THEN 1 ELSE 10 * Pow10(k - 1)

RECURSIVE DigitsToNat(_)
DigitsToNat(s) ==
    IF s = <<>> THEN 0
    ELSE 10 * DigitsToNat(SubSeq(s, 1, Len(s) - 1)) + DigitVal(s[Len(s)])

AllDigits(s) == \A i \in 1..Len(s) : s[i] \in Digits

SignOf(s) == IF s # <<>> /\ s[1] = "-" THEN -1 ELSE 1

Unsigned(s) == IF s # <<>> /\ s[1] \in {"-", "+"} THEN Tail(s) ELSE s

\* int(value) on a str: [sign] digits, ValueError otherwise
PyInt(value) ==
    LET body == Unsigned(value)
    IN  IF body # <<>> /\ AllDigits(body)
        THEN IntNum(SignOf(value) * DigitsToNat(body))
        ELSE Raise("ValueError")

\* float(value) on a str: [sign] digits [. digits] with at least one digit,
\* ValueError otherwise (exponents, inf, nan, blanks are outside the alphabet)
PyFloat(value) ==
    LET body == Unsigned(value)
        dots == {i \in 1..Len(body) : body[i] = "."}
    IN  IF dots = {}
        THEN IF body # <<>> /\ AllDigits(body)
             THEN IntNum(SignOf(value) * DigitsToNat(body))
             ELSE Raise("ValueError")
        ELSE LET p  == CHOOSE i \in dots : TRUE
                 ip == SubSeq(body, 1, p - 1)
                 fp == SubSeq(body, p + 1, Len(body))
             IN  IF Cardinality(dots) = 1 /\ AllDigits(ip) /\ AllDigits(fp)
                    /\ Len(ip) + Len(fp) > 0
                 THEN Num(SignOf(value) * (DigitsToNat(ip) * Pow10(Len(fp)) + DigitsToNat(fp)),
                          Pow10(Len(fp)))
                 ELSE Raise("ValueError")

\* str.split(sep): the pieces between the separators, at least one piece
RECURSIVE Split(_, _)
Split(s, sep) ==
    LET hits == {i \in 1..Len(s) : s[i] = sep}
    IN  IF hits = {} THEN <<s>>
        ELSE LET p == CHOOSE i \in hits : \A j \in hits : i <= j
             IN  <<SubSeq(s, 1, p - 1)>> \o Split(SubSeq(s, p + 1, Len(s)), sep)

\* sep.join(parts)
RECURSIVE Join(_, _)
Join(parts, sep) ==
    IF parts = <<>> THEN <<>>
    ELSE IF Len(parts) = 1 THEN parts[1]
    ELSE parts[1] \o <<sep>> \o Join(Tail(parts), sep)

(***************************************************************************)
(* dict                                                                    *)
(***************************************************************************)
DictHas(d, k) == \E i \in 1..Len(d) : d[i].k = k

DictGet(d, k) == d[CHOOSE i \in 1..Len(d) : d[i].k = k].v

DictSet(d, k, v) ==
    IF DictHas(d, k)
    THEN [i \in 1..Len(d) |-> IF d[i].k = k THEN [k |-> k, v |-> v] ELSE d[i]]
    ELSE Append(d, [k |-> k, v |-> v])

DictKeys(d) == {d[i].k : i \in 1..Len(d)}

(***************************************************************************)
(* StockDataParser                                                         *)
(***************************************************************************)
\* fields[i] for a 0-based Python index i
At(fields, i) == fields[i + 1]

\* the highest index parse_data reads is 29: a record needs 30 fields
NumFields == 30

\* type_(value) for the two types parse_data passes
Convert(value, type_) == IF type_ = "float" THEN PyFloat(value) ELSE PyInt(value)

\* the conversion with no try block around it
SafeConvertNoCatch(value, type_) ==
    IF value = <<>> THEN None ELSE Convert(value, type_)

safe_convert(value, type_) ==
    IF value = <<>> THEN None
    ELSE CHOOSE out \in {IF IsRaise(r) THEN None ELSE r : r \in {Convert(value, type_)}}
           : TRUE

\* a two-digit group of s starting at 1-based position p, as a number
TwoDigits(s, p) == 10 * DigitVal(s[p]) + DigitVal(s[p + 1])

\* datetime.strptime(value, "%Y-%m-%d %H:%M:%S") on the zero-padded shape
\* (the day is checked against 31 for every month)
strptime(value) ==
    LET shape == /\ Len(value) = 19
                 /\ \A i \in {1, 2, 3, 4, 6, 7, 9, 10, 12, 13, 15, 16, 18, 19} :
                        value[i] \in Digits
                 /\ value[5] = "-" /\ value[8] = "-" /\ value[11] = " "
                 /\ value[14] = ":" /\ value[17] = ":"
    IN  IF /\ shape
           /\ DigitsToNat(SubSeq(value, 1, 4)) >= 1
           /\ TwoDigits(value, 6) \in 1..12
           /\ TwoDigits(value, 9) \in 1..31
           /\ TwoDigits(value, 12) \in 0..23
           /\ TwoDigits(value, 15) \in 0..59
           /\ TwoDigits(value, 18) \in 0..61
        THEN [tag |-> "datetime", s |-> value]
        ELSE Raise("ValueError")

\* the StockData(...) constructor call of parse_data on the split fields;
\* the keyword arguments are evaluated in source order, so the timestamp's
\* ValueError precedes the IndexError of a later field
StockDataOf(symbol, fields, ts) ==
    IF IsRaise(ts) THEN ts
    ELSE IF Len(fields) < NumFields THEN Raise("IndexError")
    ELSE [tag |-> "StockData",
          symbol |-> Upper(symbol),
          name |-> Str(At(fields, 0)),
          price |-> safe_convert(At(fields, 1), "float"),
          change_percentage |-> safe_convert(At(fields, 2), "float"),
          timestamp |-> ts,
          change_value |-> safe_convert(At(fields, 4), "float"),
          open |-> safe_convert(At(fields, 5), "float"),
          high |-> safe_convert(At(fields, 6), "float"),
          low |-> safe_convert(At(fields, 7), "float"),
          year_high |-> safe_convert(At(fields, 8), "float"),
          year_low |-> safe_convert(At(fields, 9), "float"),
          volume |-> safe_convert(At(fields, 10), "int"),
          avg_volume |-> safe_convert(At(fields, 11), "int"),
          market_cap |-> safe_convert(At(fields, 12), "float"),
          earnings_per_share |-> safe_convert(At(fields, 13), "float"),
          price_to_earnings_ratio |-> Str(At(fields, 14)),
          dividend_yield |-> safe_convert(At(fields, 17), "float"),
          capital |-> safe_convert(At(fields, 19), "int"),
          pre_market_after_hours_price |-> safe_convert(At(fields, 21), "float"),
          pre_market_after_hours_price_change_percent |->
              safe_convert(At(fields, 22), "float"),
          pre_market_after_hours_price_change_value |->
              safe_convert(At(fields, 23), "float"),
          pre_market_after_hours_price_time |-> Str(At(fields, 24)),
          last_trade_time |-> Str(At(fields, 25)),
          prev_close |-> safe_convert(At(fields, 26), "float"),
          pre_market_after_hours_volume |-> safe_convert(At(fields, 27), "int"),
          year |-> safe_convert(At(fields, 29), "int")]

\* fields = values.split(",") and the record built from them
StockData(symbol, values) ==
    CHOOSE out \in
      {IF Len(fields) < 4 THEN Raise("IndexError")
       ELSE StockDataOf(symbol, fields,
                        IF At(fields, 3) # <<>> THEN strptime(At(fields, 3)) ELSE None)
         : fields \in {Split(values, ",")}}
      : TRUE

\* re.findall(r'var hq_str_gb_(\S+?)="(.+?)";', data): the response text is
\* the sequence of its lines; a line is a statement
\* var hq_str_gb_<symbol>="<values>"; or other text, and the pattern needs a
\* non-empty symbol and a non-empty value part
FindAll(data) ==
    SelectSeq(data, LAMBDA line : line.kind = "record" /\ line.symbol # <<>>
                                  /\ line.values # <<>>)

\* the for loop of parse_data over the matches from index i on; the first
\* exception ends the call
RECURSIVE ParseLoop(_, _, _)
ParseLoop(matches, i, result) ==
    IF i > Len(matches) THEN Ok(result)
    ELSE CHOOSE out \in
           {IF IsRaise(rec) THEN rec
            ELSE ParseLoop(matches, i + 1, DictSet(result, Upper(matches[i].symbol), rec))
              : rec \in {StockData(matches[i].symbol, matches[i].values)}}
           : TRUE

parse_data(data) == ParseLoop(FindAll(data), 1, <<>>)

(***************************************************************************)
(* JSON files                                                              *)
(***************************************************************************)
\* a file that cannot be opened
Missing == [tag |-> "missing"]

\* a file holding one JSON object, the sequence of its members
JsonFile(members) == [tag |-> "json", members |-> members]

\* json.load of an object: a dict of its members, a repeated name keeping
\* its first position and its last value
RECURSIVE JsonLoadFrom(_, _, _)
JsonLoadFrom(members, i, d) ==
    IF i > Len(members) THEN d
    ELSE JsonLoadFrom(members, i + 1, DictSet(d, members[i].name, members[i].value))

JsonLoad(file) == JsonLoadFrom(file.members, 1, <<>>)

\* json.dump of a dict: one member per item, in the dict's order
JsonDump(d) == JsonFile([i \in 1..Len(d) |-> [name |-> d[i].k, value |-> d[i].v]])

(***************************************************************************)
(* PortfolioManager                                                        *)
(***************************************************************************)
\* the reserved key "cash_balance"
CashKey == <<"c", "a", "s", "h", "_", "b", "a", "l", "a", "n", "c", "e">>

Hundred == 100

\* load_portfolio: the holdings and the cash balance read from the file
LoadPortfolioKeepsCashKey(file) ==
    LET data == JsonLoad(file)
    IN  [portfolio |-> data,
         cash |-> IF DictHas(data, CashKey) THEN DictGet(data, CashKey) ELSE Zero]

load_portfolio(file) ==
    LET data == JsonLoad(file)
    IN  [portfolio |-> SelectSeq(data, LAMBDA item : item.k # CashKey),
         cash |-> IF DictHas(data, CashKey) THEN DictGet(data, CashKey) ELSE Zero]

\* save_portfolio: the file written from the holdings and the cash balance
save_portfolio(holdings, balance) == JsonDump(DictSet(holdings, CashKey, balance))

\* the scan with <= in place of <
GetMarketCommentLe(quotes, conf, bench_index, bench_name) ==
    IF ~DictHas(quotes, Upper(bench_index))
    THEN Ok([kind |-> "unavailable", benchmark_name |-> bench_name])
    ELSE LET change_percentage == DictGet(quotes, Upper(bench_index)).change_percentage
             percentage_str == [sign |-> IF Lt(Zero, change_percentage) THEN "+" ELSE "",
                                value |-> change_percentage]
             Fmt(c) == [kind |-> "comment", comment |-> c,
                        benchmark_name |-> bench_name, percentage |-> percentage_str]
         IN  IF change_percentage.tag # "num" THEN Raise("TypeError")
             ELSE IF "market_comments" \notin DOMAIN conf THEN Raise("KeyError")
             ELSE LET mc == conf["market_comments"]
                      hits == {i \in 1..Len(mc) : ~Lt(mc[i].threshold, change_percentage)}
                  IN  IF hits # {}
                      THEN Ok(Fmt(mc[CHOOSE i \in hits : \A j \in hits : i <= j].comment))
                      ELSE IF mc = <<>> THEN Raise("IndexError")
                      ELSE Ok(Fmt(mc[Len(mc)].comment))

\* get_market_comment; the two-decimal rendering of the percentage is kept as
\* the sign prefix and the value
get_market_comment(quotes, conf, bench_index, bench_name) ==
    IF ~DictHas(quotes, Upper(bench_index))
    THEN Ok([kind |-> "unavailable", benchmark_name |-> bench_name])
    ELSE LET change_percentage == DictGet(quotes, Upper(bench_index)).change_percentage
             percentage_str == [sign |-> IF Lt(Zero, change_percentage) THEN "+" ELSE "",
                                value |-> change_percentage]
             Fmt(c) == [kind |-> "comment", comment |-> c,
                        benchmark_name |-> bench_name, percentage |-> percentage_str]
         IN  IF change_percentage.tag # "num" THEN Raise("TypeError")
             ELSE IF "market_comments" \notin DOMAIN conf THEN Raise("KeyError")
             ELSE LET mc == conf["market_comments"]
                      hits == {i \in 1..Len(mc) : Lt(change_percentage, mc[i].threshold)}
                  IN  IF hits # {}
                      THEN Ok(Fmt(mc[CHOOSE i \in hits : \A j \in hits : i <= j].comment))
                      ELSE IF mc = <<>> THEN Raise("IndexError")
                      ELSE Ok(Fmt(mc[Len(mc)].comment))

\* change / base * 100, and 0 when the base is 0
Percentage(change, base) ==
    IF base # Zero THEN Mul(Div(change, base), IntNum(Hundred)) ELSE Zero

\* the body of calculate_nlv's loop for a holding whose quote is present:
\* the accumulators after it, or the TypeError of a None operand
NlvStep(acc, symbol, quantity, stock) ==
    CHOOSE out \in
      {IF IsRaise(t[1]) \/ IsRaise(t[2])
       THEN [acc EXCEPT !.tag = "raise", !.exc = "TypeError"]
       ELSE [acc EXCEPT
               !.nlv = Add(@, t[1]),
               !.prev_nlv = Add(@, t[2]),
               !.stock_details = DictSet(@, symbol,
                  [quantity |-> quantity,
                   current_price |-> stock.price,
                   prev_price |-> stock.prev_close,
                   change |-> Sub(t[1], t[2]),
                   change_percentage |-> Percentage(Sub(t[1], t[2]), t[2])])]
         : t \in {<<PyMul(stock.price, quantity), PyMul(stock.prev_close, quantity)>>}}
      : TRUE

\* the loop with no test for a missing quote: the lookup raises KeyError
RECURSIVE NlvLoopMissingRaises(_, _, _, _)
NlvLoopMissingRaises(holdings, quotes, i, acc) ==
    IF i > Len(holdings) THEN [acc EXCEPT !.tag = "ok"]
    ELSE IF ~DictHas(quotes, holdings[i].k)
    THEN [acc EXCEPT !.tag = "raise", !.exc = "KeyError"]
    ELSE CHOOSE out \in
           {IF IsRaise(next) THEN next
            ELSE NlvLoopMissingRaises(holdings, quotes, i + 1, next)
              : next \in {NlvStep(acc, holdings[i].k, holdings[i].v,
                                  DictGet(quotes, holdings[i].k))}}
           : TRUE

\* the for loop of calculate_nlv over the holdings from index i on
RECURSIVE NlvLoop(_, _, _, _)
NlvLoop(holdings, quotes, i, acc) ==
    IF i > Len(holdings) THEN [acc EXCEPT !.tag = "ok"]
    ELSE IF ~DictHas(quotes, holdings[i].k)
    THEN NlvLoop(holdings, quotes, i + 1,
                 [acc EXCEPT !.warnings = Append(@, holdings[i].k)])
    ELSE CHOOSE out \in
           {IF IsRaise(next) THEN next ELSE NlvLoop(holdings, quotes, i + 1, next)
              : next \in {NlvStep(acc, holdings[i].k, holdings[i].v,
                                  DictGet(quotes, holdings[i].k))}}
           : TRUE

\* the part of calculate_nlv after the loop
NlvTotals(loop, market_comment) ==
    IF IsRaise(loop)
    THEN [tag |-> "raise", exc |-> loop.exc, warnings |-> loop.warnings]
    ELSE IF IsRaise(market_comment)
    THEN [tag |-> "raise", exc |-> market_comment.exc, warnings |-> loop.warnings]
    ELSE [tag |-> "ok", warnings |-> loop.warnings,
          v |-> [nlv |-> loop.nlv,
                 change |-> Sub(loop.nlv, loop.prev_nlv),
                 change_percentage |->
                     Percentage(Sub(loop.nlv, loop.prev_nlv), loop.prev_nlv),
                 stock_details |-> loop.stock_details,
                 market_comment |-> market_comment.v]]

\* the accumulators started at zero, not at the cash balance
CalculateNlvNoCash(holdings, balance, quotes, conf, bench_index, bench_name) ==
    CHOOSE out \in
      {NlvTotals(loop, get_market_comment(quotes, conf, bench_index, bench_name))
         : loop \in {NlvLoop(holdings, quotes, 1,
                       [tag |-> "loop", exc |-> "", nlv |-> Zero, prev_nlv |-> Zero,
                        stock_details |-> <<>>, warnings |-> <<>>])}}
      : TRUE

\* calculate_nlv: [tag |-> "ok", v |-> the returned dict] or a raise, each
\* with the warnings printed on the way
calculate_nlv(holdings, balance, quotes, conf, bench_index, bench_name) ==
    CHOOSE out \in
      {NlvTotals(loop, get_market_comment(quotes, conf, bench_index, bench_name))
         : loop \in {NlvLoop(holdings, quotes, 1,
                       [tag |-> "loop", exc |-> "", nlv |-> balance, prev_nlv |-> balance,
                        stock_details |-> <<>>, warnings |-> <<>>])}}
      : TRUE

\* round(x, 2) and the .2f rendering: the nearest multiple of 1/100, a tie
\* going to the even one
Round2(x) ==
    LET y == Mul(x, IntNum(Hundred))
        q == y.n \div y.d
        r == y.n - q * y.d
        up == 2 * r > y.d \/ (2 * r = y.d /\ q % 2 = 1)
    IN  Num(IF up THEN q + 1 ELSE q, Hundred)

\* the per-symbol block of the JSON report
RoundedDetails(stock_details) ==
    [i \in 1..Len(stock_details) |->
        [k |-> stock_details[i].k,
         v |-> [quantity |-> stock_details[i].v.quantity,
                current_price |-> Round2(stock_details[i].v.current_price),
                change |-> Round2(stock_details[i].v.change),
                change_percentage |-> Round2(stock_details[i].v.change_percentage)]]]

\* the document generate_report_json builds from calculate_nlv's result
JsonReport(nlv_data, quotes, bench_index, bench_name) ==
    IF IsRaise(nlv_data) THEN nlv_data
    ELSE IF ~DictHas(quotes, Upper(bench_index))
    THEN [tag |-> "raise", exc |-> "KeyError", warnings |-> nlv_data.warnings]
    ELSE [tag |-> "ok", warnings |-> nlv_data.warnings,
          v |-> [kind |-> "json",
                 market_comment |-> nlv_data.v.market_comment,
                 benchmark_index |-> bench_name,
                 benchmark_change |->
                     DictGet(quotes, Upper(bench_index)).change_percentage,
                 nlv |-> [current |-> Round2(nlv_data.v.nlv),
                          change |-> Round2(nlv_data.v.change),
                          change_percentage |-> Round2(nlv_data.v.change_percentage)],
                 stock_details |-> RoundedDetails(nlv_data.v.stock_details)]]

\* generate_report_json: the printed document, or a raise
generate_report_json(holdings, balance, quotes, conf, bench_index, bench_name) ==
    CHOOSE out \in
      {JsonReport(nlv_data, quotes, bench_index, bench_name)
         : nlv_data \in {calculate_nlv(holdings, balance, quotes, conf,
                                       bench_index, bench_name)}}
      : TRUE

\* the rows of the text report's table
DetailRows(stock_details) ==
    [i \in 1..Len(stock_details) |->
        [symbol |-> stock_details[i].k,
         quantity |-> stock_details[i].v.quantity,
         change |-> Round2(stock_details[i].v.change),
         change_percentage |-> Round2(stock_details[i].v.change_percentage)]]

\* the text generate_report_string builds from calculate_nlv's result;
\* market_comment is None when the commentary block is left out
TextReport(nlv_data, include_market_comment) ==
    IF IsRaise(nlv_data) THEN nlv_data
    ELSE [tag |-> "ok", warnings |-> nlv_data.warnings,
          v |-> [kind |-> "text",
                 market_comment |-> IF include_market_comment
                                    THEN nlv_data.v.market_comment ELSE None,
                 nlv |-> Round2(nlv_data.v.nlv),
                 change |-> Round2(nlv_data.v.change),
                 change_percentage |-> Round2(nlv_data.v.change_percentage),
                 rows |-> DetailRows(nlv_data.v.stock_details)]]

\* generate_report_string: the text, or a raise
generate_report_string(holdings, balance, quotes, conf, bench_index, bench_name, include_market_comment) ==
    CHOOSE out \in
      {TextReport(nlv_data, include_market_comment)
         : nlv_data \in {calculate_nlv(holdings, balance, quotes, conf,
                                       bench_index, bench_name)}}
      : TRUE

(***************************************************************************)
(* NotificationService                                                     *)
(***************************************************************************)
\* send_bark_notification: what it does for an outcome of the GET, as the
\* events it adds; it returns normally in every case.  The url is built
\* before the request, so a missing key ends the try block with no request.
send_bark_notification(conf, subject, body, outcome) ==
    IF "bark_key" \notin DOMAIN conf \/ "bark_group" \notin DOMAIN conf
    THEN <<[ev |-> "log", text |-> "unexpected_error"]>>
    ELSE <<[ev |-> "notify_request", title |-> subject, body |-> body,
            outcome |-> outcome]>>
         \o IF outcome = "success"
            THEN <<[ev |-> "log", text |-> "sent"]>>
            ELSE <<[ev |-> "log", text |-> "failed"]>>

(***************************************************************************)
(* StockDataFetcher                                                        *)
(***************************************************************************)
\* the list parameter of the request: gb_<lowercased symbol> per symbol
SymbolList(symbols) == [i \in 1..Len(symbols) |-> <<"g", "b", "_">> \o Lower(symbols[i])]

(***************************************************************************)
(* Inputs: the files on disk and the two servers' answers                  *)
(***************************************************************************)
MaxQty == 2

MaxHoldings == 2

MaxComments == 3

SymA == <<"A">>

SymB == <<"B">>

SymLowerA == <<"a">>

BenchIndex == <<"i", "x">>

BenchName == <<"I", "d", "x">>

Timestamp ==
    <<"2", "0", "2", "4", "-", "0", "1", "-", "0", "2", " ",
      "0", "3", ":", "0", "4", ":", "0", "5">>

\* a well-formed record's 30 fields, with the price, the change percentage
\* and the previous close given
QuoteFields(price, chg, prev) ==
    [i \in 1..NumFields |->
        CASE i = 1 -> <<"N">>
          [] i = 2 -> price
          [] i = 3 -> chg
          [] i = 4 -> Timestamp
          [] i = 15 -> <<"-", "-">>
          [] i = 25 -> <<"t">>
          [] i = 26 -> <<"t">>
          [] i = 27 -> prev
          [] OTHER -> <<"1">>]

QuoteLine(symbol, price, chg, prev) ==
    [kind |-> "record", symbol |-> symbol,
     values |-> Join(QuoteFields(price, chg, prev), ",")]

JunkLine == [kind |-> "text", symbol |-> <<>>, values |-> <<>>]

\* the provider's answer for a symbol it does not know
EmptyLine(symbol) == [kind |-> "record", symbol |-> symbol, values |-> <<>>]

\* a record cut short after its fifth field
ShortLine(symbol) ==
    [kind |-> "record", symbol |-> symbol,
     values |-> Join(SubSeq(QuoteFields(<<"1">>, <<"1">>, <<"1">>), 1, 5), ",")]

S0 == <<"0">>

S10 == <<"1", "0">>

S140 == <<"1", "4", "0">>

S150 == <<"1", "5", "0">>

S12_5 == <<"1", "2", ".", "5">>

SNeg2_5 == <<"-", "2", ".", "5">>

SNeg10 == <<"-", "1", "0">>

S1_2 == <<"1", ".", "2">>

S500 == <<"5", "0", "0">>

SBad == <<"x">>

SEmpty == <<>>

Member(name, value) == [name |-> name, value |-> value]

Threshold(t, c) == [threshold |-> t, comment |-> c]

\* settings.json with the thresholds of the spec's example
ExampleComments ==
    <<Threshold(IntNum(-5), "crash"), Threshold(Zero, "down"), Threshold(IntNum(999), "up")>>

FullSettings ==
    [benchmark_index |-> BenchIndex, benchmark_name |-> BenchName,
     market_comments |-> ExampleComments,
     bark_key |-> <<"k">>, bark_group |-> <<"g">>]

Without(f, key) == [x \in DOMAIN f \ {key} |-> f[x]]

SettingsFiles ==
    {Missing}
    \cup {[tag |-> "json", v |-> c] :
            c \in {FullSettings, Without(FullSettings, "bark_key"),
                   Without(FullSettings, "bark_group")}}

\* portfolio.json for the run: holdings of A and B in that order, a
\* lowercase key, with and without the reserved key
MainPortfolioFiles ==
    {Missing}
    \cup {JsonFile(h \o c) :
            h \in {<<>>, <<Member(SymLowerA, IntNum(1))>>}
                  \cup {<<Member(SymA, IntNum(q))>> : q \in 1..MaxQty}
                  \cup {<<Member(SymA, IntNum(q)), Member(SymB, IntNum(1))>> : q \in {0, MaxQty}},
            c \in {<<>>, <<Member(CashKey, IntNum(1000))>>, <<Member(CashKey, IntNum(-10))>>}}

\* the answers of the quote provider with a success status: per symbol no
\* line or a line, well-formed lines first
MainHeldLines ==
    {<<>>, <<QuoteLine(Lower(SymA), S150, S1_2, S140)>>,
     <<QuoteLine(Lower(SymA), SEmpty, S1_2, S140)>>,
     <<QuoteLine(Lower(SymA), S150, S1_2, SBad)>>,
     <<QuoteLine(Lower(SymA), S150, S1_2, S140), QuoteLine(Lower(SymB), S10, S0, S0)>>,
     <<EmptyLine(Lower(SymA)), JunkLine>>,
     <<ShortLine(Lower(SymA))>>}

MainBenchLines ==
    {<<>>} \cup {<<QuoteLine(BenchIndex, S10, c, S10)>> : c \in {SNeg2_5, S1_2, SEmpty}}

MainResponses == {h \o b : h \in MainHeldLines, b \in MainBenchLines}

\* what the GET of fetch_data ends in: an exception of requests, or a
\* response with a status and a text
FetchOutcomes ==
    {[kind |-> "network_error", status |-> 0, text |-> <<>>]}
    \cup {[kind |-> "response", status |-> 200, text |-> t] : t \in MainResponses}
    \cup {[kind |-> "response", status |-> 500, text |-> <<JunkLine>>]}

\* what the GET of send_bark_notification ends in
NotifyOutcomes == {"success", "http_error", "network_error", "timeout"}

\* the injective sequences of length n over the set S
RECURSIVE Arrangements(_, _)
Arrangements(S, n) ==
    IF n = 0 THEN {<<>>}
    ELSE {<<x>> \o rest : x \in S, rest \in Arrangements(S, n - 1)}

Injective(seq) == \A i, j \in 1..Len(seq) : seq[i] = seq[j] => i = j

HeldKeys == {SymA, SymB, SymLowerA}

\* portfolio.json: up to MaxHoldings holdings of 0..MaxQty shares
HoldingLists ==
    UNION {{[i \in 1..n |-> Member(ks[i], IntNum(qs[i]))] :
               ks \in {a \in Arrangements(HeldKeys, n) : Injective(a)},
               qs \in [1..n -> 0..MaxQty]} : n \in 0..MaxHoldings}

CashMembers ==
    {<<>>} \cup {<<Member(CashKey, c)>> : c \in {IntNum(-140), IntNum(1000), Num(21, 2)}}

PortfolioFiles == {JsonFile(h \o c) : h \in HoldingLists, c \in CashMembers}

\* the quote mappings parse_data gives for the answers about A, B and the
\* benchmark
ValuationQuotes ==
    {parse_data(a \o b \o x).v :
        a \in {<<>>} \cup {<<QuoteLine(Lower(SymA), pp[1], S0, pp[2])>> :
                               pp \in {<<S150, S140>>, <<S10, S0>>, <<S12_5, S10>>,
                                       <<SEmpty, S140>>}},
        b \in {<<>>, <<QuoteLine(Lower(SymB), S10, S0, S10)>>},
        x \in {<<>>, <<QuoteLine(BenchIndex, S10, S1_2, S10)>>}}

\* the templates of a threshold list are named by position
CommentNames == <<"crash", "down", "up", "c4", "c5", "c6">>

ThresholdValues == {IntNum(-5), Zero, IntNum(999)}

CommentLists ==
    UNION {{[i \in 1..n |-> Threshold(ts[i], CommentNames[i])] :
               ts \in [1..n -> ThresholdValues]} : n \in 0..MaxComments}

BenchmarkQuotes ==
    {<<>>} \cup {parse_data(<<QuoteLine(BenchIndex, S10, c, S10)>>).v :
                    c \in {SNeg10, <<"-", "5">>, SNeg2_5, S0, S1_2, S500,
                           <<"9", "9", "9">>, SEmpty}}

MaxExtraFields == 1

FieldValues == {SEmpty, SBad, <<"7">>, <<"1", ".", "5">>}

\* a record of n fields, well-formed but for the field of index p
OverrideLine(symbol, p, v, n) ==
    [kind |-> "record", symbol |-> symbol,
     values |-> Join([i \in 1..n |->
                        IF i = p + 1 THEN v
                        ELSE IF i <= NumFields
                        THEN QuoteFields(S150, S1_2, S140)[i] ELSE <<"1">>], ",")]

ParseTexts ==
    {<<OverrideLine(Lower(SymA), p, v, NumFields + extra)>> \o rest :
        p \in 0..(NumFields - 1), v \in FieldValues, extra \in (-1)..MaxExtraFields,
        rest \in {<<>>, <<JunkLine, QuoteLine(Lower(SymB), S10, S0, SBad)>>}}

MaxOps == 3

(***************************************************************************)
(* State                                                                   *)
(***************************************************************************)
VARIABLES
    pc,               \* the statement of main (or the call) that runs next
    args,             \* the parsed command line
    settings,         \* PortfolioManager.settings
    benchmark_index,  \* PortfolioManager.benchmark_index
    benchmark_name,   \* PortfolioManager.benchmark_name
    portfolio,        \* PortfolioManager.portfolio
    cash,             \* PortfolioManager.cash
    stock_data,       \* PortfolioManager.stock_data
    market_comment,   \* main's local of the notification path
    file,             \* portfolio.json
    raw_data,         \* the text of the last quote response
    result,           \* what the last call returned or raised
    error,            \* the exception that ended the run, "" if none
    events            \* what the run did, in order

vars == <<pc, args, settings, benchmark_index, benchmark_name, portfolio, cash,
          stock_data, market_comment, file, raw_data, result, error, events>>

manager == <<settings, benchmark_index, benchmark_name, portfolio, cash, stock_data>>

Ev(name) == [ev |-> name]

Warnings(symbols) == [i \in 1..Len(symbols) |-> [ev |-> "warning", symbol |-> symbols[i]]]

\* the state PortfolioManager.__init__ sets before it reads the settings
Constructed ==
    /\ args = None
    /\ settings = None
    /\ benchmark_index = None
    /\ benchmark_name = None
    /\ portfolio = <<>>
    /\ cash = Zero
    /\ stock_data = <<>>
    /\ market_comment = None
    /\ raw_data = <<>>
    /\ result = None
    /\ error = ""
    /\ events = <<>>

Init ==
    /\ pc = "start"
    /\ file = Missing
    /\ Constructed

\* an uncaught exception ends main
Crash(exc, evs) ==
    /\ pc' = "crashed"
    /\ error' = exc
    /\ events' = events \o evs

(***************************************************************************)
(* main                                                                    *)
(***************************************************************************)
\* the error is printed and the run goes on
ParseArgsNoReturn ==
    /\ pc = "start"
    /\ \E show \in BOOLEAN, json \in BOOLEAN :
          /\ args' = [show |-> show, json |-> json]
          /\ events' = IF show /\ json THEN Append(events, Ev("print_error")) ELSE events
          /\ pc' = "construct"
    /\ UNCHANGED <<manager, market_comment, file, raw_data, result, error>>

\* lines 296-300
ParseArgs ==
    /\ pc = "start"
    /\ \E show \in BOOLEAN, json \in BOOLEAN :
          /\ args' = [show |-> show, json |-> json]
          /\ IF show /\ json
             THEN /\ events' = Append(events, Ev("print_error"))
                  /\ pc' = "done"
             ELSE /\ events' = events
                  /\ pc' = "construct"
    /\ UNCHANGED <<manager, market_comment, file, raw_data, result, error>>

\* line 302: PortfolioManager("settings.json")
Construct ==
    /\ pc = "construct"
    /\ \E f \in SettingsFiles :
          IF f = Missing
          THEN /\ Crash("FileNotFoundError", <<Ev("read_settings")>>)
               /\ UNCHANGED <<settings, benchmark_index, benchmark_name>>
          ELSE /\ settings' = f.v
               /\ benchmark_index' = f.v["benchmark_index"]
               /\ benchmark_name' = f.v["benchmark_name"]
               /\ events' = Append(events, Ev("read_settings"))
               /\ pc' = "load"
               /\ error' = error
    /\ UNCHANGED <<args, portfolio, cash, stock_data, market_comment, file, raw_data, result>>

\* line 303: load_portfolio("portfolio.json")
LoadPortfolio ==
    /\ pc = "load"
    /\ \E f \in MainPortfolioFiles :
          /\ file' = f
          /\ IF f = Missing
             THEN /\ Crash("FileNotFoundError", <<Ev("read_portfolio")>>)
                  /\ UNCHANGED <<portfolio, cash>>
             ELSE /\ \E loaded \in {load_portfolio(f)} :
                        /\ portfolio' = loaded.portfolio
                        /\ cash' = loaded.cash
                  /\ events' = Append(events, Ev("read_portfolio"))
                  /\ pc' = "update"
                  /\ error' = error
    /\ UNCHANGED <<args, settings, benchmark_index, benchmark_name, stock_data,
                   market_comment, raw_data, result>>

\* fetch_data: the text of the response whatever its status, or the
\* exception of requests.get
fetch_data(outcome) ==
    IF outcome.kind = "network_error" THEN Raise("ConnectionError") ELSE Ok(outcome.text)

\* line 304: update_stock_data()
UpdateStockData ==
    /\ pc = "update"
    /\ \E outcome \in FetchOutcomes :
       \E request \in {[ev |-> "quote_request",
                        list |-> SymbolList([i \in 1..Len(portfolio) |-> portfolio[i].k]
                                            \o <<benchmark_index>>),
                        outcome |-> outcome.kind, status |-> outcome.status]} :
       \E fetched \in {fetch_data(outcome)} :
          IF IsRaise(fetched)
          THEN /\ Crash(fetched.exc, <<request>>)
               /\ UNCHANGED <<stock_data, raw_data>>
          ELSE /\ raw_data' = fetched.v
               /\ \E parsed \in {parse_data(fetched.v)} :
                     IF IsRaise(parsed)
                     THEN /\ Crash(parsed.exc, <<request, Ev("parse")>>)
                          /\ UNCHANGED stock_data
                     ELSE /\ stock_data' = parsed.v
                          /\ events' = events \o <<request, Ev("parse")>>
                          /\ pc' = IF args.json THEN "json"
                                   ELSE IF args.show THEN "show" ELSE "comment"
                          /\ error' = error
    /\ UNCHANGED <<args, settings, benchmark_index, benchmark_name, portfolio, cash,
                   market_comment, file, result>>

\* print(report) of a report call, or the exception it raised
PrintReport(report) ==
    /\ result' = report
    /\ IF IsRaise(report)
       THEN Crash(report.exc, <<Ev("valuation")>> \o Warnings(report.warnings))
       ELSE /\ events' = events \o <<Ev("valuation")>> \o Warnings(report.warnings)
                         \o <<[ev |-> "print_report", report |-> report.v]>>
            /\ pc' = "done"
            /\ error' = error

\* lines 306-307
ReportJson ==
    /\ pc = "json"
    /\ \E report \in {generate_report_json(portfolio, cash, stock_data, settings,
                                           benchmark_index, benchmark_name)} :
          PrintReport(report)
    /\ UNCHANGED <<args, manager, market_comment, file, raw_data>>

\* lines 308-309
ReportShow ==
    /\ pc = "show"
    /\ \E report \in {generate_report_string(portfolio, cash, stock_data, settings,
                                             benchmark_index, benchmark_name, TRUE)} :
          PrintReport(report)
    /\ UNCHANGED <<args, manager, market_comment, file, raw_data>>

\* line 311
GetComment ==
    /\ pc = "comment"
    /\ \E c \in {get_market_comment(stock_data, settings, benchmark_index,
                                    benchmark_name)} :
          IF IsRaise(c)
          THEN /\ Crash(c.exc, <<>>)
               /\ UNCHANGED market_comment
          ELSE /\ market_comment' = c.v
               /\ pc' = "notify"
               /\ UNCHANGED <<error, events>>
    /\ UNCHANGED <<args, manager, file, raw_data, result>>

\* the notification sent with no try block around it
NotifyNoCatch ==
    /\ pc = "notify"
    /\ \E body \in {generate_report_string(portfolio, cash, stock_data, settings,
                                           benchmark_index, benchmark_name, FALSE)} :
          /\ result' = body
          /\ IF IsRaise(body)
             THEN Crash(body.exc, <<Ev("valuation")>> \o Warnings(body.warnings))
             ELSE \E outcome \in NotifyOutcomes :
                     IF "bark_key" \in DOMAIN settings /\ "bark_group" \in DOMAIN settings
                        /\ outcome = "success"
                     THEN /\ events' = events \o <<Ev("valuation")>>
                                       \o Warnings(body.warnings)
                                       \o send_bark_notification(settings, market_comment,
                                                                 body.v, outcome)
                          /\ pc' = "done"
                          /\ error' = error
                     ELSE Crash("RequestException",
                                <<Ev("valuation")>> \o Warnings(body.warnings))
    /\ UNCHANGED <<args, manager, market_comment, file, raw_data>>

\* lines 312-316: the body is computed first, then the notification is sent
Notify ==
    /\ pc = "notify"
    /\ \E body \in {generate_report_string(portfolio, cash, stock_data, settings,
                                           benchmark_index, benchmark_name, FALSE)} :
          /\ result' = body
          /\ IF IsRaise(body)
             THEN Crash(body.exc, <<Ev("valuation")>> \o Warnings(body.warnings))
             ELSE \E outcome \in NotifyOutcomes :
                     /\ events' = events \o <<Ev("valuation")>> \o Warnings(body.warnings)
                                  \o send_bark_notification(settings, market_comment,
                                                            body.v, outcome)
                     /\ pc' = "done"
                     /\ error' = error
    /\ UNCHANGED <<args, manager, market_comment, file, raw_data>>

Next ==
    \/ ParseArgs
    \/ Construct
    \/ LoadPortfolio
    \/ UpdateStockData
    \/ ReportJson
    \/ ReportShow
    \/ GetComment
    \/ Notify

Spec == Init /\ [][Next]_vars

(***************************************************************************)
(* calculate_nlv called on a loaded portfolio and a parsed quote mapping   *)
(***************************************************************************)
WithSettings(conf) ==
    /\ settings = conf
    /\ benchmark_index = conf["benchmark_index"]
    /\ benchmark_name = conf["benchmark_name"]

Idle ==
    /\ args = None
    /\ market_comment = None
    /\ raw_data = <<>>
    /\ result = None
    /\ error = ""
    /\ events = <<>>

InitNlv ==
    /\ pc = "call"
    /\ WithSettings(FullSettings)
    /\ \E f \in PortfolioFiles :
          /\ file = f
          /\ portfolio = load_portfolio(f).portfolio
          /\ cash = load_portfolio(f).cash
    /\ stock_data \in ValuationQuotes
    /\ Idle

CallCalculateNlv ==
    /\ pc = "call"
    /\ \E r \in {calculate_nlv(portfolio, cash, stock_data, settings,
                                benchmark_index, benchmark_name)} :
          /\ result' = r
          /\ events' = Warnings(r.warnings)
    /\ pc' = "returned"
    /\ UNCHANGED <<args, manager, market_comment, file, raw_data, error>>

NextNlv == CallCalculateNlv

SpecNlv == InitNlv /\ [][NextNlv]_vars

(***************************************************************************)
(* get_market_comment called on a threshold list and a benchmark quote     *)
(***************************************************************************)
InitComment ==
    /\ pc = "call"
    /\ \E mc \in CommentLists : WithSettings([FullSettings EXCEPT !.market_comments = mc])
    /\ portfolio = <<>>
    /\ cash = Zero
    /\ file = Missing
    /\ stock_data \in BenchmarkQuotes
    /\ Idle

CallGetMarketComment ==
    /\ pc = "call"
    /\ result' = get_market_comment(stock_data, settings, benchmark_index, benchmark_name)
    /\ pc' = "returned"
    /\ UNCHANGED <<args, manager, market_comment, file, raw_data, error, events>>

NextComment == CallGetMarketComment

SpecComment == InitComment /\ [][NextComment]_vars

(***************************************************************************)
(* parse_data called on a response text                                    *)
(***************************************************************************)
InitParse ==
    /\ pc = "call"
    /\ WithSettings(FullSettings)
    /\ portfolio = <<>>
    /\ cash = Zero
    /\ file = Missing
    /\ stock_data = <<>>
    /\ args = None
    /\ market_comment = None
    /\ raw_data \in ParseTexts
    /\ result = None
    /\ error = ""
    /\ events = <<>>

CallParseData ==
    /\ pc = "call"
    /\ result' = parse_data(raw_data)
    /\ pc' = "returned"
    /\ UNCHANGED <<args, manager, market_comment, file, raw_data, error, events>>

NextParse == CallParseData

SpecParse == InitParse /\ [][NextParse]_vars

(***************************************************************************)
(* load_portfolio and save_portfolio called on one manager and one file    *)
(***************************************************************************)
InitStore ==
    /\ pc = "store"
    /\ WithSettings(FullSettings)
    /\ portfolio = <<>>
    /\ cash = Zero
    /\ stock_data = <<>>
    /\ file \in PortfolioFiles
    /\ Idle

CallLoadPortfolio ==
    /\ pc = "store"
    /\ Len(events) < MaxOps
    /\ \E loaded \in {load_portfolio(file)} :
          /\ portfolio' = loaded.portfolio
          /\ cash' = loaded.cash
    /\ events' = Append(events, [ev |-> "load", file |-> file])
    /\ UNCHANGED <<pc, args, settings, benchmark_index, benchmark_name, stock_data,
                   market_comment, file, raw_data, result, error>>

CallSavePortfolio ==
    /\ pc = "store"
    /\ Len(events) < MaxOps
    /\ file' = save_portfolio(portfolio, cash)
    /\ events' = Append(events, [ev |-> "save", portfolio |-> portfolio, cash |-> cash])
    /\ UNCHANGED <<pc, args, manager, market_comment, raw_data, result, error>>

NextStore == CallLoadPortfolio \/ CallSavePortfolio

SpecStore == InitStore /\ [][NextStore]_vars

(***************************************************************************)
(* Properties of a run of main                                             *)
(***************************************************************************)
EventsOf(name) == {i \in 1..Len(events) : events[i].ev = name}

Outputs == EventsOf("print_report") \cup EventsOf("notify_request")

BothFlags == args # None /\ args.show /\ args.json

DefaultMode == args # None /\ ~args.show /\ ~args.json

\* update_stock_data has returned
Updated == EventsOf("parse") # {} /\ ~(pc = "crashed" /\ result = None /\ stock_data = <<>>
                                       /\ error \in {"IndexError", "ValueError"})

BenchmarkAbsent == ~DictHas(stock_data, Upper(benchmark_index))

\* the holdings whose quote is present but has no price or no previous close
NoValueHeld ==
    {i \in 1..Len(portfolio) :
        /\ DictHas(stock_data, portfolio[i].k)
        /\ \/ DictGet(stock_data, portfolio[i].k).price = None
           \/ DictGet(stock_data, portfolio[i].k).prev_close = None}

Placeholder == [kind |-> "unavailable", benchmark_name |-> benchmark_name]

\* C2: when the benchmark has no quote, the run completes in every mode and
\* its report or notification carries the placeholder comment naming the
\* benchmark (holdings with a price and a previous close)
C2_MissingBenchmarkNonFatal ==
    (Updated /\ BenchmarkAbsent /\ NoValueHeld = {})
    => /\ pc # "crashed"
       /\ \A i \in EventsOf("print_report") :
             events[i].report.market_comment = Placeholder
       /\ \A i \in EventsOf("notify_request") : events[i].title = Placeholder

\* C3: after a quote request that ended in a network failure or in a
\* non-success status the run is over: nothing is parsed, valued, printed
\* or sent
C3_FetchFailureAborts ==
    \A i \in EventsOf("quote_request") :
        (events[i].outcome = "network_error" \/ events[i].status # 200)
        => /\ pc = "crashed"
           /\ Len(events) = i

\* the report of the notification path has been computed
BodyComputed == DefaultMode /\ result # None /\ result.tag = "ok"

HasCredentials == "bark_key" \in DOMAIN settings /\ "bark_group" \in DOMAIN settings

\* C6 as stated: in the notification path, once the report is computed main
\* returns normally whatever the notification step does, and exactly one
\* notification request is attempted
C6_ExactlyOneRequest ==
    BodyComputed
    => /\ pc = "done"
       /\ error = ""
       /\ Cardinality(EventsOf("notify_request")) = 1

\* C6 amended: in the notification path, once the report is computed main
\* returns normally whatever the notification step does, with one log line;
\* one request is attempted when the settings hold both credentials, and
\* none when one is missing
C6_NotificationNeverPropagates ==
    BodyComputed
    => /\ pc = "done"
       /\ error = ""
       /\ Cardinality(EventsOf("log")) = 1
       /\ Cardinality(EventsOf("notify_request")) = IF HasCredentials THEN 1 ELSE 0
       /\ \A i \in EventsOf("notify_request") :
             events[Len(events)].text = IF events[i].outcome = "success"
                                        THEN "sent" ELSE "failed"

C6_Witness ==
    /\ BodyComputed
    /\ pc = "done"
    /\ \E i \in EventsOf("notify_request") : events[i].outcome = "network_error"

\* C7: with both --show and --json the run prints the error and ends with
\* nothing read, requested, printed or sent; otherwise the settings read,
\* the portfolio read and the quote request come first, in that order,
\* before any report or notification
C7_ConflictAbortsBeforeIO ==
    /\ BothFlags => (pc = "done" /\ events = <<Ev("print_error")>> /\ file = Missing
                     /\ settings = None /\ stock_data = <<>>)
    /\ (args # None /\ ~BothFlags)
       => /\ EventsOf("print_error") = {}
          /\ \A i \in 1..Len(events) :
                /\ i = 1 => events[i].ev = "read_settings"
                /\ i = 2 => events[i].ev = "read_portfolio"
                /\ i = 3 => events[i].ev = "quote_request"
          /\ \A i \in Outputs : i > 3

C7_Witness ==
    /\ BothFlags
    /\ pc = "done"
    /\ events = <<Ev("print_error")>>

\* C10: a held symbol whose quote is present with no price or no previous
\* close makes calculate_nlv raise TypeError: in every mode the run ends
\* with no report printed and no notification sent, and the holding is not
\* skipped with a warning
C10_NoValuePriceRaises ==
    (Updated /\ NoValueHeld # {})
    => /\ pc # "done"
       /\ Outputs = {}
       /\ result # None => (IsRaise(result) /\ result.exc = "TypeError")
       /\ \A i \in EventsOf("warning") :
             \A j \in NoValueHeld : events[i].symbol # portfolio[j].k

C10_Witness ==
    /\ Updated
    /\ NoValueHeld # {}
    /\ pc = "crashed"
    /\ result # None
    /\ error = "TypeError"

(***************************************************************************)
(* Properties of calculate_nlv (SpecNlv)                                   *)
(***************************************************************************)
\* the holdings whose symbol is a key of the quote mapping, and the others
Present == {i \in 1..Len(portfolio) : DictHas(stock_data, portfolio[i].k)}

PresentHoldings == SelectSeq(portfolio, LAMBDA h : DictHas(stock_data, h.k))

AbsentSymbols ==
    LET absent == SelectSeq(portfolio, LAMBDA h : ~DictHas(stock_data, h.k))
    IN  [i \in 1..Len(absent) |-> absent[i].k]

\* the sum of quantity x price over the holdings of S
RECURSIVE ValueAtPrice(_)
ValueAtPrice(S) ==
    IF S = {} THEN Zero
    ELSE LET i == CHOOSE x \in S : TRUE
         IN  Add(Mul(portfolio[i].v, DictGet(stock_data, portfolio[i].k).price),
                 ValueAtPrice(S \ {i}))

\* the sum of quantity x previous close over the holdings of S
RECURSIVE ValueAtClose(_)
ValueAtClose(S) ==
    IF S = {} THEN Zero
    ELSE LET i == CHOOSE x \in S : TRUE
         IN  Add(Mul(portfolio[i].v, DictGet(stock_data, portfolio[i].k).prev_close),
                 ValueAtClose(S \ {i}))

\* pct is change / base x 100, and 0 when the base is 0
IsPercentageOf(pct, change, base) ==
    IF base = Zero THEN pct = Zero ELSE Mul(pct, base) = Mul(change, IntNum(Hundred))

Returned == pc = "returned" /\ result.tag = "ok"

\* C1: calculate_nlv returns nlv = cash + the sum of quantity x price and a
\* previous NLV (nlv - change) = cash + the sum of quantity x previous
\* close, both over the holdings with a quote; change_percentage is
\* change / previous NLV x 100, and 0 when the previous NLV is 0; each
\* holding's change_percentage is its change / (quantity x previous close)
\* x 100, and 0 when that product is 0
C1_NlvArithmetic ==
    Returned
    => LET r == result.v
           nlv == Add(cash, ValueAtPrice(Present))
           prev_nlv == Add(cash, ValueAtClose(Present))
       IN  /\ r.nlv = nlv
           /\ Sub(r.nlv, r.change) = prev_nlv
           /\ r.change = Sub(nlv, prev_nlv)
           /\ IsPercentageOf(r.change_percentage, r.change, prev_nlv)
           /\ \A i \in Present :
                 LET d == DictGet(r.stock_details, portfolio[i].k)
                     q == DictGet(stock_data, portfolio[i].k)
                 IN  /\ d.change = Sub(Mul(portfolio[i].v, q.price),
                                       Mul(portfolio[i].v, q.prev_close))
                     /\ IsPercentageOf(d.change_percentage, d.change,
                                       Mul(portfolio[i].v, q.prev_close))

\* a negative cash balance, a previous NLV of zero and a holding valued
C1_Witness ==
    /\ Returned
    /\ Lt(cash, Zero)
    /\ Present # {}
    /\ Sub(result.v.nlv, result.v.change) = Zero
    /\ result.v.change_percentage = Zero
    /\ result.v.change # Zero

\* C4: every holding whose symbol has no quote gets a warning and is
\* skipped: the call ends as it does on the portfolio without these
\* holdings, with the same result, and stock_details has exactly one entry
\* per holding whose symbol has a quote
C4_MissingQuoteSkipped ==
    pc = "returned"
    => LET rest == calculate_nlv(PresentHoldings, cash, stock_data, settings,
                                 benchmark_index, benchmark_name)
       IN  /\ result.tag = rest.tag
           /\ rest.warnings = <<>>
           /\ result.tag = "ok"
              => /\ result.v = rest.v
                 /\ result.warnings = AbsentSymbols
                 /\ events = Warnings(AbsentSymbols)
                 /\ Len(result.v.stock_details) = Cardinality(Present)
                 /\ DictKeys(result.v.stock_details) = {portfolio[i].k : i \in Present}

C4_Witness ==
    /\ Returned
    /\ Present # {}
    /\ AbsentSymbols # <<>>
    /\ events = Warnings(AbsentSymbols)

(***************************************************************************)
(* Properties of get_market_comment (SpecComment)                          *)
(***************************************************************************)
BenchmarkChange == DictGet(stock_data, Upper(benchmark_index)).change_percentage

\* the entries whose threshold is strictly greater than the change
Exceeding ==
    {i \in 1..Len(settings["market_comments"]) :
        Lt(BenchmarkChange, settings["market_comments"][i].threshold)}

\* C5: with the benchmark quote present, the template selected is that of
\* the first entry whose threshold is strictly greater than the change, and
\* that of the last entry when there is none; with thresholds [-5, 0, 999]
\* a change of -2.5 selects the second, -10 the first and 500 the third
C5_FirstExceedingThreshold ==
    (/\ pc = "returned"
     /\ DictHas(stock_data, Upper(benchmark_index))
     /\ BenchmarkChange # None
     /\ settings["market_comments"] # <<>>)
    => LET mc == settings["market_comments"]
       IN  /\ result.tag = "ok"
           /\ result.v.kind = "comment"
           /\ \E i \in 1..Len(mc) :
                 /\ result.v.comment = mc[i].comment
                 /\ \/ i \in Exceeding /\ \A j \in 1..(i - 1) : j \notin Exceeding
                    \/ i = Len(mc) /\ Exceeding = {}
           /\ mc = ExampleComments
              => /\ BenchmarkChange = Num(-5, 2) => result.v.comment = "down"
                 /\ BenchmarkChange = IntNum(-10) => result.v.comment = "crash"
                 /\ BenchmarkChange = IntNum(500) => result.v.comment = "up"
                 /\ BenchmarkChange = Zero => result.v.comment = "up"

\* a change equal to the second threshold of the example list
C5_Witness ==
    /\ pc = "returned"
    /\ settings["market_comments"] = ExampleComments
    /\ DictHas(stock_data, Upper(benchmark_index))
    /\ BenchmarkChange = Zero
    /\ result.v.comment = "up"

(***************************************************************************)
(* Properties of parse_data (SpecParse)                                    *)
(***************************************************************************)
\* the fields parse_data passes to safe_convert: index, attribute, type
NumericFields ==
    {<<1, "price", "float">>, <<2, "change_percentage", "float">>,
     <<4, "change_value", "float">>, <<5, "open", "float">>, <<6, "high", "float">>,
     <<7, "low", "float">>, <<8, "year_high", "float">>, <<9, "year_low", "float">>,
     <<10, "volume", "int">>, <<11, "avg_volume", "int">>, <<12, "market_cap", "float">>,
     <<13, "earnings_per_share", "float">>, <<17, "dividend_yield", "float">>,
     <<19, "capital", "int">>, <<21, "pre_market_after_hours_price", "float">>,
     <<22, "pre_market_after_hours_price_change_percent", "float">>,
     <<23, "pre_market_after_hours_price_change_value", "float">>,
     <<26, "prev_close", "float">>, <<27, "pre_market_after_hours_volume", "int">>,
     <<29, "year", "int">>}

\* the fields parse_data copies
TextFields ==
    {<<0, "name">>, <<14, "price_to_earnings_ratio">>,
     <<24, "pre_market_after_hours_price_time">>, <<25, "last_trade_time">>}

TimestampField == <<3, "timestamp">>

Matched == FindAll(raw_data)

FieldsOf(i) == Split(Matched[i].values, ",")

FullRecord(i) == Len(FieldsOf(i)) >= NumFields

\* no later record of the text has the same symbol
LastForSymbol(i) ==
    \A j \in (i + 1)..Len(Matched) : Upper(Matched[j].symbol) # Upper(Matched[i].symbol)

TimestampOk(i) ==
    Len(FieldsOf(i)) > 3
    => (At(FieldsOf(i), 3) = <<>> \/ ~IsRaise(strptime(At(FieldsOf(i), 3))))

ParsedRecord(i) == DictGet(result.v, Upper(Matched[i].symbol))

\* C8 as stated: for every matched record with the full number of fields,
\* each field read that is empty gives no value, a numeric field that cannot
\* be converted gives no value, and the record is in the result
C8_EveryFieldSafeConverted ==
    pc = "returned"
    => \A i \in 1..Len(Matched) :
          FullRecord(i)
          => /\ result.tag = "ok"
             /\ DictHas(result.v, Upper(Matched[i].symbol))
             /\ LastForSymbol(i)
                => /\ \A f \in NumericFields \cup TextFields \cup {TimestampField} :
                         At(FieldsOf(i), f[1]) = <<>> => ParsedRecord(i)[f[2]] = None
                   /\ \A f \in NumericFields :
                         IsRaise(Convert(At(FieldsOf(i), f[1]), f[3]))
                         => ParsedRecord(i)[f[2]] = None

\* C8 amended: in a text whose matched records all have the full number of
\* fields and an empty or well-formed timestamp, every record is in the
\* result; a numeric field that is empty or cannot be converted gives no
\* value, an empty timestamp gives no value, and the four text fields are
\* copied as they are, an empty one as the empty string
C8_NumericFieldsSafeConverted ==
    (pc = "returned" /\ \A i \in 1..Len(Matched) : FullRecord(i) /\ TimestampOk(i))
    => /\ result.tag = "ok"
       /\ \A i \in 1..Len(Matched) :
             /\ DictHas(result.v, Upper(Matched[i].symbol))
             /\ LastForSymbol(i)
                => /\ \A f \in NumericFields :
                         ParsedRecord(i)[f[2]] =
                            IF At(FieldsOf(i), f[1]) = <<>> THEN None
                            ELSE IF IsRaise(Convert(At(FieldsOf(i), f[1]), f[3])) THEN None
                            ELSE Convert(At(FieldsOf(i), f[1]), f[3])
                   /\ At(FieldsOf(i), 3) = <<>> => ParsedRecord(i).timestamp = None
                   /\ \A f \in TextFields :
                         ParsedRecord(i)[f[2]] = Str(At(FieldsOf(i), f[1]))

\* an empty price and an unconvertible previous close, each parsed to None
C8_Witness ==
    /\ pc = "returned"
    /\ result.tag = "ok"
    /\ \E i \in 1..Len(Matched) :
          /\ FullRecord(i)
          /\ At(FieldsOf(i), 1) = <<>>
          /\ ParsedRecord(i).price = None
    /\ \E i \in 1..Len(Matched) :
          /\ FullRecord(i)
          /\ At(FieldsOf(i), 26) = SBad
          /\ ParsedRecord(i).prev_close = None

(***************************************************************************)
(* Properties of load_portfolio and save_portfolio (SpecStore)             *)
(***************************************************************************)
LastCall == events[Len(events)]

\* C9: save_portfolio followed by load_portfolio leaves the holdings and
\* the cash balance that were saved; loading a file with no cash_balance
\* key gives cash 0 and every key as a holding
C9_SaveLoadRoundTrip ==
    /\ (Len(events) >= 2 /\ LastCall.ev = "load" /\ events[Len(events) - 1].ev = "save")
       => /\ portfolio = events[Len(events) - 1].portfolio
          /\ cash = events[Len(events) - 1].cash
    /\ (Len(events) >= 1 /\ LastCall.ev = "load"
        /\ \A j \in 1..Len(LastCall.file.members) : LastCall.file.members[j].name # CashKey)
       => /\ cash = Zero
          /\ Len(portfolio) = Len(LastCall.file.members)
          /\ \A j \in 1..Len(LastCall.file.members) :
                /\ DictHas(portfolio, LastCall.file.members[j].name)
                /\ DictGet(portfolio, LastCall.file.members[j].name)
                      = LastCall.file.members[j].value

\* holdings and a negative balance saved, then loaded
C9_Witness ==
    /\ Len(events) >= 2
    /\ LastCall.ev = "load"
    /\ events[Len(events) - 1].ev = "save"
    /\ Len(portfolio) = MaxHoldings
    /\ Lt(cash, Zero)
====
